---- MODULE Spec2Model ----
(***************************************************************************)
(* A model of WEEK7.py, a click command-line client of the disease.sh      *)
(* COVID-19 API: get_remote_data (one HTTPS GET, JSON or None) and the     *)
(* three commands overall, nation-stats and past-data.                     *)
(*                                                                         *)
(* One behaviour is one process run: a command is invoked, calls           *)
(* get_remote_data once, and then runs its formatter line by line until it *)
(* returns (pc = "done") or an exception escapes (pc = "fault").           *)
(*                                                                         *)
(* Standard output is the sequence `out` of printed lines.  cli.style only *)
(* wraps a text in colour codes, so a styled text is modelled by the text. *)
(* The value of a record's field f is rendered symbolically as "{f}".      *)
(***************************************************************************)
EXTENDS Integers, Sequences, FiniteSets, TLC

VARIABLES pc, cmd, arg, history, conn, requests, response, data, out, fault, ln

vars == <<pc, cmd, arg, history, conn, requests, response, data, out, fault, ln>>

(***************************************************************************)
(* Bounds of the model.                                                    *)
(***************************************************************************)
MaxRows == 2

\* the arguments the user may give
Nations == {"xx", "usa"}
Histories == {7, 30}

(***************************************************************************)
(* Program constants.                                                      *)
(***************************************************************************)
BASE_URL_DOMAIN == "disease.sh"
API_VERSION == "/v3/covid-19"

(***************************************************************************)
(* Python values.  A dict is modelled by its key set; the value under      *)
(* "timeline" by the set of sub-maps it holds and their number of entries. *)
(***************************************************************************)
PyNone == [t |-> "None"]
PyBool(b) == [t |-> "bool", v |-> b]
PyInt(n) == [t |-> "int", v |-> n]
PyText(s) == [t |-> "str", v |-> s]
PyList(n) == [t |-> "list", len |-> n]
PyDict(keys, tl) == [t |-> "dict", keys |-> keys, timeline |-> tl]

NoTimeline == [series |-> {}, rows |-> 0]

\* a variant of Truthy: the test `if v is not None:`
Truthy_IsNotNone(v) == v.t # "None"

\* bool(v): the truth value Python's `if v:` tests
Truthy(v) ==
    CASE v.t = "None" -> FALSE
      [] v.t = "bool" -> v.v
      [] v.t = "int"  -> v.v # 0
      [] v.t = "str"  -> v.v # ""
      [] v.t = "list" -> v.len > 0
      [] v.t = "dict" -> v.keys # {}

\* str(v) as an f-string renders it: str(True) is "True", str(7) is "7"
PyStr(v) ==
    CASE v.t = "bool" -> IF v.v THEN "True" ELSE "False"
      [] v.t = "int"  -> ToString(v.v)
      [] v.t = "str"  -> v.v
      [] v.t = "None" -> "None"

(***************************************************************************)
(* The remote server: statuses, reason phrases and response bodies.        *)
(***************************************************************************)
Statuses == {200, 404, 500}

Reason(status) ==
    CASE status = 200 -> "OK"
      [] status = 404 -> "Not Found"
      [] status = 500 -> "Internal Server Error"

SummaryFields == {"country", "cases", "deaths", "recovered", "active",
                  "todayCases", "todayDeaths", "tests", "updated"}
Series == {"cases", "deaths", "recovered"}

Timelines == {[series |-> S, rows |-> n] : S \in SUBSET Series, n \in 1..MaxRows}

ObjectBodies ==
    {[kind |-> "object", text |-> "", keys |-> K, timeline |-> NoTimeline] :
        K \in SUBSET SummaryFields}
    \cup
    {[kind |-> "object", text |-> "", keys |-> K \cup {"timeline"}, timeline |-> tl] :
        K \in SUBSET SummaryFields, tl \in Timelines}

\* JSON texts that are not objects ('' and 'x' stand for the JSON strings "" and "x"),
\* and one body that is not JSON at all
LiteralTexts == {"null", "false", "true", "0", "5", "[]", "[1]", "''", "'x'", "<html>"}

LiteralBodies ==
    {[kind |-> "literal", text |-> s, keys |-> {}, timeline |-> NoTimeline] :
        s \in LiteralTexts}

Bodies == ObjectBodies \cup LiteralBodies

NoResponse == [status |-> 0, reason |-> "", body |-> CHOOSE b \in LiteralBodies : b.text = "null"]

\* json.loads raises on a body that is not JSON
JsonMalformed(body) == body.kind = "literal" /\ body.text = "<html>"

\* json.loads(body): JSON null becomes None, the same value as "no data"
json_loads(body) ==
    IF body.kind = "object" THEN PyDict(body.keys, body.timeline)
    ELSE CASE body.text = "null"  -> PyNone
           [] body.text = "false" -> PyBool(FALSE)
           [] body.text = "true"  -> PyBool(TRUE)
           [] body.text = "0"     -> PyInt(0)
           [] body.text = "5"     -> PyInt(5)
           [] body.text = "[]"    -> PyList(0)
           [] body.text = "[1]"   -> PyList(1)
           [] body.text = "''"    -> PyText("")
           [] body.text = "'x'"   -> PyText("x")

(***************************************************************************)
(* get_remote_data                                                         *)
(***************************************************************************)
\* '&'.join([f"{key}={value}" ...]) over the (key, value) pairs in order
RECURSIVE JoinParams(_)
JoinParams(ps) ==
    IF Len(ps) = 0 THEN ""
    ELSE IF Len(ps) = 1 THEN ps[1][1] \o "=" \o PyStr(ps[1][2])
    ELSE ps[1][1] \o "=" \o PyStr(ps[1][2]) \o "&" \o JoinParams(Tail(ps))

\* full_path; query_params is a sequence of pairs, <<>> for None or {}
FullPath(path, query_params) ==
    IF Len(query_params) > 0
    THEN API_VERSION \o "/" \o path \o "?" \o JoinParams(query_params)
    ELSE API_VERSION \o "/" \o path

\* the arguments each command passes to get_remote_data
CallPath(c, a) ==
    CASE c = "overall"      -> "all"
      [] c = "nation_stats" -> "countries/" \o a
      [] c = "past_data"    -> "historical/" \o a

CallParams(c, h) ==
    IF c = "past_data"
    THEN << <<"lastdays", PyInt(h)>>, <<"full", PyBool(TRUE)>> >>
    ELSE << >>

\* a variant of DiagnosticLine: the status code left out of the message
DiagnosticLine_NoStatus(status, reason) ==
    "Encountered an issue fetching data: " \o reason

DiagnosticLine(status, reason) ==
    "Encountered an issue fetching data: " \o ToString(status) \o " " \o reason

\* a variant of AfterResponse: the request is sent again after a non-200 status
AfterResponse_Retry(status) == IF status # 200 THEN "call" ELSE "responded"

\* where control goes once the response has arrived
AfterResponse(status) == "responded"

\* both branches of the status test return, so the statement that follows the
\* if/else, connection.close(), is reached for no status
ReachesClose(status) == IF status = 200 THEN FALSE ELSE FALSE

(***************************************************************************)
(* The formatters' lines, in the order the code prints them.  A line with  *)
(* field "" reads no field of the record.                                  *)
(***************************************************************************)
Line(label, field, suffix) == [label |-> label, field |-> field, suffix |-> suffix]

OverallLines ==
    << Line("--- Global COVID-19 Overview ---", "", ""),
       Line("Total Infections: ", "cases", ""),
       Line("Total Fatalities: ", "deaths", ""),
       Line("Total Recoveries: ", "recovered", ""),
       Line("Currently Infected: ", "active", ""),
       Line("New Infections Today: ", "todayCases", ""),
       Line("New Fatalities Today: ", "todayDeaths", ""),
       Line("Last Refreshed: ", "updated", "") >>

NationLines ==
    << Line("--- COVID-19 Stats for ", "country", " ---"),
       Line("Infections: ", "cases", ""),
       Line("Deaths: ", "deaths", ""),
       Line("Recovered: ", "recovered", ""),
       Line("Active: ", "active", ""),
       Line("Today's Infections: ", "todayCases", ""),
       Line("Today's Deaths: ", "todayDeaths", ""),
       Line("Total Tests Conducted: ", "tests", ""),
       Line("Updated On: ", "updated", "") >>

\* the text of a line: the label, the formatted value of the field, the suffix
LineText(l) ==
    IF l.field = "" THEN l.label
    ELSE l.label \o "{" \o l.field \o "}" \o l.suffix

\* a variant of KeyMissing: the lookup d.get(f, 0), which never raises
KeyMissing_Get(d, f) == FALSE

\* d[f] raises KeyError when the dict d has no key f
KeyMissing(d, f) == f \notin d.keys

\* the exception v[f] raises for a string key f, "none" when it raises none
SubscriptFault(v, f) ==
    IF v.t # "dict" THEN "TypeError"
    ELSE IF KeyMissing(v, f) THEN "KeyError"
    ELSE "none"

\* a variant of NotFoundLine: the message names the request path, not the input
NotFoundLine_Path(nation) == "Could not locate information for: countries/" \o nation

NotFoundLine(nation) == "Could not locate information for: " \o nation

CouldNotRetrieveLine(place, h) ==
    "Could not retrieve past data for " \o place \o " spanning "
        \o PyStr(PyInt(h)) \o " days."

(***************************************************************************)
(* past_data's rendering                                                   *)
(***************************************************************************)
\* `x in v` raises TypeError when v is not a container
InRaises(v) == v.t \in {"int", "bool", "None"}

\* a variant of TimelineTest: the condition `if history_info:` alone
TimelineTest_Omitted(v) == TRUE

\* 'timeline' in history_info: a key of a dict, an element of a list, a
\* substring of a string (the modelled list [1] and string "x" hold none)
TimelineTest(v) == v.t = "dict" /\ "timeline" \in v.keys

\* the attributes the pandas class DataFrame has, among those the code uses:
\* to_datetime is a function of the pandas module, not of DataFrame
DataFrameAttributes == {"to_string"}

Date(i) == "1/" \o ToString(i) \o "/21"

\* frame.to_string(index=False): the column header and one row per entry
TableLines(column, series, rows) ==
    <<"Date " \o column>> \o
    [i \in 1..rows |-> Date(i) \o " {" \o series \o "[" \o Date(i) \o "]}"]

HistoryHeader(h) ==
    "--- Past COVID-19 Data for {country} (Last " \o PyStr(PyInt(h)) \o " Days) ---"

HistoryLines(tl, h) ==
    <<HistoryHeader(h)>>
    \o <<"", "--- Infections Over Time ---">>
    \o TableLines("Infections", "cases", tl.rows)
    \o <<"", "--- Fatalities Over Time ---">>
    \o TableLines("Fatalities", "deaths", tl.rows)
    \o <<"", "--- Recoveries Over Time ---">>
    \o TableLines("Recoveries", "recovered", tl.rows)

\* the outcome of past_data's body after the fetch: the exception that escapes
\* ("none" when none does) and the lines printed
Outcome(f, lines) == [fault |-> f, lines |-> lines]

PastDataOutcome(d, place, h) ==
    IF ~Truthy(d) THEN Outcome("none", <<CouldNotRetrieveLine(place, h)>>)
    ELSE IF InRaises(d) THEN Outcome("TypeError", <<>>)
    ELSE IF ~TimelineTest(d) THEN Outcome("none", <<CouldNotRetrieveLine(place, h)>>)
    ELSE IF SubscriptFault(d, "timeline") # "none"
        THEN Outcome(SubscriptFault(d, "timeline"), <<>>)
    ELSE IF ~(Series \subseteq d.timeline.series) THEN Outcome("KeyError", <<>>)
    ELSE IF "to_datetime" \notin DataFrameAttributes THEN Outcome("AttributeError", <<>>)
    ELSE IF SubscriptFault(d, "country") # "none"
        THEN Outcome(SubscriptFault(d, "country"), <<>>)
    ELSE Outcome("none", HistoryLines(d.timeline, h))

(***************************************************************************)
(* Initial state: the process has started, no command has run yet.         *)
(***************************************************************************)
Init ==
    /\ pc = "idle"
    /\ cmd = "none"
    /\ arg = ""
    /\ history = 0
    /\ conn = [opened |-> 0, closed |-> 0]
    /\ requests = <<>>
    /\ response = NoResponse
    /\ data = PyNone
    /\ out = <<>>
    /\ fault = "none"
    /\ ln = 0

(***************************************************************************)
(* The dispatcher enters one of the three commands, which calls            *)
(* get_remote_data.                                                        *)
(***************************************************************************)
overall_call ==
    /\ pc = "idle"
    /\ cmd' = "overall"
    /\ pc' = "call"
    /\ UNCHANGED <<arg, history, conn, requests, response, data, out, fault, ln>>

nation_stats_call ==
    /\ pc = "idle"
    /\ \E nation \in Nations :
        /\ cmd' = "nation_stats"
        /\ arg' = nation
    /\ pc' = "call"
    /\ UNCHANGED <<history, conn, requests, response, data, out, fault, ln>>

past_data_call ==
    /\ pc = "idle"
    /\ \E place \in Nations, h \in Histories :
        /\ cmd' = "past_data"
        /\ arg' = place
        /\ history' = h
    /\ pc' = "call"
    /\ UNCHANGED <<conn, requests, response, data, out, fault, ln>>

(***************************************************************************)
(* get_remote_data, in three steps: the request, the response, the return. *)
(***************************************************************************)
get_remote_data_request ==
    /\ pc = "call"
    /\ conn' = [conn EXCEPT !.opened = @ + 1]
    /\ requests' = Append(requests,
            [method |-> "GET",
             host |-> BASE_URL_DOMAIN,
             path |-> FullPath(CallPath(cmd, arg), CallParams(cmd, history))])
    /\ pc' = "requested"
    /\ UNCHANGED <<cmd, arg, history, response, data, out, fault, ln>>

\* the connection or the exchange fails: the exception is not caught
get_remote_data_network_fault ==
    /\ pc = "requested"
    /\ pc' = "fault"
    /\ fault' = "OSError"
    /\ UNCHANGED <<cmd, arg, history, conn, requests, response, data, out, ln>>

get_remote_data_getresponse ==
    /\ pc = "requested"
    /\ \E status \in Statuses, body \in Bodies :
        /\ response' = [status |-> status, reason |-> Reason(status), body |-> body]
        /\ pc' = AfterResponse(status)
    /\ UNCHANGED <<cmd, arg, history, conn, requests, data, out, fault, ln>>

get_remote_data_return ==
    /\ pc = "responded"
    /\ IF response.status = 200
       THEN IF JsonMalformed(response.body)
            THEN /\ pc' = "fault"
                 /\ fault' = "JSONDecodeError"
                 /\ UNCHANGED <<data, out>>
            ELSE /\ data' = json_loads(response.body)
                 /\ pc' = "returned"
                 /\ UNCHANGED <<fault, out>>
       ELSE /\ out' = Append(out, DiagnosticLine(response.status, response.reason))
            /\ data' = PyNone
            /\ pc' = "returned"
            /\ UNCHANGED fault
    /\ conn' = IF ReachesClose(response.status)
               THEN [conn EXCEPT !.closed = @ + 1]
               ELSE conn
    /\ UNCHANGED <<cmd, arg, history, requests, response, ln>>

(***************************************************************************)
(* The summary formatters print line by line: a line whose field lookup    *)
(* raises ends the command with the lines before it already written.       *)
(***************************************************************************)
\* a variant of EchoLine: every line is formatted before the first is printed
EchoLine_Atomic(lines) ==
    LET bad == {i \in 1..Len(lines) :
                    /\ lines[i].field # ""
                    /\ SubscriptFault(data, lines[i].field) # "none"}
        first == CHOOSE i \in bad : \A j \in bad : i <= j
    IN  IF bad # {}
        THEN /\ pc' = "fault"
             /\ fault' = SubscriptFault(data, lines[first].field)
             /\ UNCHANGED <<out, ln>>
        ELSE /\ out' = out \o [i \in 1..Len(lines) |-> LineText(lines[i])]
             /\ ln' = Len(lines) + 1
             /\ pc' = "done"
             /\ UNCHANGED fault

EchoLine(lines) ==
    LET l == lines[ln]
        f == IF l.field = "" THEN "none" ELSE SubscriptFault(data, l.field)
    IN  IF f # "none"
        THEN /\ pc' = "fault"
             /\ fault' = f
             /\ UNCHANGED <<out, ln>>
        ELSE /\ out' = Append(out, LineText(l))
             /\ ln' = ln + 1
             /\ pc' = IF ln = Len(lines) THEN "done" ELSE "fmt"
             /\ UNCHANGED fault

overall_test ==
    /\ pc = "returned"
    /\ cmd = "overall"
    /\ IF Truthy(data)
       THEN pc' = "fmt" /\ ln' = 1
       ELSE pc' = "done" /\ UNCHANGED ln
    /\ UNCHANGED <<cmd, arg, history, conn, requests, response, data, out, fault>>

overall_echo ==
    /\ pc = "fmt"
    /\ cmd = "overall"
    /\ EchoLine(OverallLines)
    /\ UNCHANGED <<cmd, arg, history, conn, requests, response, data>>

nation_stats_test ==
    /\ pc = "returned"
    /\ cmd = "nation_stats"
    /\ IF Truthy(data)
       THEN pc' = "fmt" /\ ln' = 1 /\ UNCHANGED out
       ELSE /\ out' = Append(out, NotFoundLine(arg))
            /\ pc' = "done"
            /\ UNCHANGED ln
    /\ UNCHANGED <<cmd, arg, history, conn, requests, response, data, fault>>

nation_stats_echo ==
    /\ pc = "fmt"
    /\ cmd = "nation_stats"
    /\ EchoLine(NationLines)
    /\ UNCHANGED <<cmd, arg, history, conn, requests, response, data>>

past_data_render ==
    /\ pc = "returned"
    /\ cmd = "past_data"
    /\ LET o == PastDataOutcome(data, arg, history)
       IN  /\ out' = out \o o.lines
           /\ fault' = o.fault
           /\ pc' = IF o.fault = "none" THEN "done" ELSE "fault"
    /\ UNCHANGED <<cmd, arg, history, conn, requests, response, data, ln>>

Next ==
    \/ overall_call
    \/ nation_stats_call
    \/ past_data_call
    \/ get_remote_data_request
    \/ get_remote_data_network_fault
    \/ get_remote_data_getresponse
    \/ get_remote_data_return
    \/ overall_test
    \/ overall_echo
    \/ nation_stats_test
    \/ nation_stats_echo
    \/ past_data_render

Spec == Init /\ [][Next]_vars

(***************************************************************************)
(* Properties                                                              *)
(***************************************************************************)
\* get_remote_data has returned to the command (no exception escaped from it)
FetcherReturned ==
    \/ pc \in {"returned", "fmt", "done"}
    \/ pc = "fault" /\ fault \notin {"OSError", "JSONDecodeError"}

\* the diagnostic line the specification describes, for the response received
ExpectedDiagnostic ==
    CASE response.status = 404 -> "Encountered an issue fetching data: 404 Not Found"
      [] response.status = 500 ->
            "Encountered an issue fetching data: 500 Internal Server Error"
      [] OTHER -> "no diagnostic"

\* what get_remote_data has printed when the command's own printing starts
FetcherOutput == IF response.status = 200 THEN <<>> ELSE <<ExpectedDiagnostic>>

ExpectedNotFound == "Could not locate information for: " \o arg

ExpectedCouldNotRetrieve ==
    "Could not retrieve past data for " \o arg \o " spanning "
        \o ToString(history) \o " days."

\* C1: for every response whose status is not 200, get_remote_data writes one
\* diagnostic line holding the status code and the reason phrase and returns
\* None without raising; overall and nation-stats then finish without a fault.
C1_Non200Diagnosed ==
    (response.status \notin {0, 200} /\ pc # "responded") =>
        /\ FetcherReturned
        /\ fault = "none"
        /\ data = PyNone
        /\ Len(out) >= 1
        /\ out[1] = ExpectedDiagnostic
        /\ \A i \in 2..Len(out) : out[i] # ExpectedDiagnostic
        /\ cmd \in {"overall", "nation_stats"} =>
            /\ pc \in {"returned", "done"}
            /\ pc = "returned" => ENABLED (overall_test \/ nation_stats_test)
            /\ (pc = "done" /\ cmd = "overall") => out = <<ExpectedDiagnostic>>

C1_Witness ==
    /\ pc = "done"
    /\ cmd = "overall"
    /\ response.status = 404
    /\ data = PyNone
    /\ out = <<"Encountered an issue fetching data: 404 Not Found">>

\* C2 as stated: whenever the Fetcher returns no data for nation-stats <input>,
\* the whole output of the command is the single not-found line.
C2_OutputIsSingleLine ==
    (pc = "done" /\ cmd = "nation_stats" /\ data = PyNone) =>
        out = <<ExpectedNotFound>>

\* C2 amended: whenever the Fetcher returns no data for nation-stats <input>,
\* the command itself prints exactly one line, the not-found message naming the
\* input verbatim, as the last line of the output; the output is that single
\* line after a 200 response and is preceded by get_remote_data's diagnostic
\* line after a non-200 status.
C2_NotFoundIsLastLine ==
    (FetcherReturned /\ cmd = "nation_stats" /\ data = PyNone) =>
        /\ pc \in {"returned", "done"}
        /\ pc = "returned" => (out = FetcherOutput /\ ENABLED nation_stats_test)
        /\ pc = "done" => out = FetcherOutput \o <<ExpectedNotFound>>

C2_Witness ==
    /\ pc = "done"
    /\ cmd = "nation_stats"
    /\ arg = "xx"
    /\ response.status = 404
    /\ out = <<"Encountered an issue fetching data: 404 Not Found",
               "Could not locate information for: xx">>

\* C3: every call of get_remote_data opens exactly one connection and has closed
\* it exactly once when the call returns, on the 200 and the non-200 path.
C3_ConnectionClosedOnReturn ==
    FetcherReturned => (conn.opened = 1 /\ conn.closed = 1)

\* C4: past-data, given a 200 response whose timeline holds cases, deaths and
\* recovered, prints the infections, fatalities and recoveries tables in that
\* order, each with one row per entry of its sub-map.
C4_ThreeTablesPrinted ==
    ( /\ pc \in {"done", "fault"}
      /\ FetcherReturned
      /\ cmd = "past_data"
      /\ response.status = 200
      /\ data.t = "dict"
      /\ {"timeline", "country"} \subseteq data.keys
      /\ Series \subseteq data.timeline.series ) =>
        LET n == data.timeline.rows
        IN  /\ pc = "done"
            /\ Len(out) = 10 + 3 * n
            /\ out[3] = "--- Infections Over Time ---"
            /\ out[6 + n] = "--- Fatalities Over Time ---"
            /\ out[9 + 2 * n] = "--- Recoveries Over Time ---"

\* C5: when the past-data response has no timeline key, or the Fetcher returned
\* no data, past-data prints the could-not-retrieve message, no header and no
\* table, and ends without a fault.
C5_NoTimelineFailurePath ==
    ( /\ FetcherReturned
      /\ cmd = "past_data"
      /\ \/ data = PyNone
         \/ data.t = "dict" /\ "timeline" \notin data.keys ) =>
        /\ fault = "none"
        /\ pc \in {"returned", "done"}
        /\ pc = "returned" => (out = FetcherOutput /\ ENABLED past_data_render)
        /\ pc = "done" => out = FetcherOutput \o <<ExpectedCouldNotRetrieve>>

C5_Witness ==
    /\ pc = "done"
    /\ cmd = "past_data"
    /\ arg = "usa"
    /\ history = 7
    /\ response.status = 200
    /\ data.t = "dict"
    /\ data.keys = SummaryFields
    /\ out = <<"Could not retrieve past data for usa spanning 7 days.">>

\* C6: the request path is /v3/covid-19/all for overall,
\* /v3/covid-19/countries/<name> for nation-stats and
\* /v3/covid-19/historical/p?lastdays=n&full=true for past-data.
C6_RequestPaths ==
    \A i \in 1..Len(requests) :
        requests[i].path =
            CASE cmd = "overall" -> "/v3/covid-19/all"
              [] cmd = "nation_stats" -> "/v3/covid-19/countries/" \o arg
              [] cmd = "past_data" ->
                    "/v3/covid-19/historical/" \o arg \o "?lastdays="
                        \o ToString(history) \o "&full=true"

\* C7: every invocation issues exactly one GET request whatever the response
\* status is, and nothing is printed before the response has been received.
C7_OneRequestBeforeOutput ==
    /\ Len(requests) <= 1
    /\ pc \notin {"idle", "call"} =>
        (Len(requests) = 1 /\ requests[1].method = "GET")
    /\ response = NoResponse => out = <<>>
    /\ pc \in {"fmt", "done"} => response # NoResponse

C7_Witness ==
    /\ pc = "done"
    /\ cmd = "past_data"
    /\ response.status = 500
    /\ Len(requests) = 1
    /\ Len(out) = 2

\* the fields each summary extracts
ExtractedFields ==
    IF cmd = "overall"
    THEN {"cases", "deaths", "recovered", "active", "todayCases", "todayDeaths",
          "updated"}
    ELSE {"country", "cases", "deaths", "recovered", "active", "todayCases",
          "todayDeaths", "tests", "updated"}

FailureMessages ==
    {"Could not locate information for: " \o n : n \in Nations}

\* C8: when the record given to the global or the country summary lacks one of
\* the fields it extracts, the invocation ends in a lookup fault: no failure
\* message is printed and the command does not complete normally.
C8_MissingFieldFaults ==
    ( /\ cmd \in {"overall", "nation_stats"}
      /\ ln >= 1
      /\ data.t = "dict"
      /\ ~(ExtractedFields \subseteq data.keys) ) =>
        /\ pc \in {"fmt", "fault"}
        /\ pc = "fmt" => (fault = "none" /\ ENABLED (overall_echo \/ nation_stats_echo))
        /\ pc = "fault" => (fault = "KeyError" /\ ~ENABLED Next)
        /\ \A i \in 1..Len(out) : out[i] \notin FailureMessages

C8_Witness ==
    /\ pc = "fault"
    /\ fault = "KeyError"
    /\ cmd = "overall"
    /\ data.t = "dict"
    /\ data.keys = SummaryFields \ {"updated"}
    /\ Len(out) = 7

\* the parsed values of the falsy JSON texts {}, [], 0, false, null and ""
FalsyJsonValues ==
    {PyDict({}, NoTimeline), PyList(0), PyInt(0), PyBool(FALSE), PyNone, PyText("")}

\* C9: a 200 response whose JSON value is falsy is handled as a no-data result:
\* overall prints nothing, nation-stats prints the not-found message, past-data
\* the could-not-retrieve message; no lookup fault, and no diagnostic line.
C9_Falsy200IsNoData ==
    (response.status = 200 /\ FetcherReturned /\ data \in FalsyJsonValues) =>
        /\ fault = "none"
        /\ ln = 0
        /\ pc \in {"returned", "done"}
        /\ pc = "returned" =>
            /\ out = <<>>
            /\ ENABLED (overall_test \/ nation_stats_test \/ past_data_render)
        /\ pc = "done" =>
            out = CASE cmd = "overall" -> <<>>
                    [] cmd = "nation_stats" -> <<ExpectedNotFound>>
                    [] cmd = "past_data" -> <<ExpectedCouldNotRetrieve>>

C9_Witness ==
    /\ pc = "done"
    /\ cmd = "nation_stats"
    /\ arg = "usa"
    /\ response.status = 200
    /\ response.body.kind = "object"
    /\ data = PyDict({}, NoTimeline)
    /\ out = <<"Could not locate information for: usa">>

\* the summaries' output in full, line by line, and the field each line reads
ExpectedOverall ==
    << <<"--- Global COVID-19 Overview ---", "">>,
       <<"Total Infections: {cases}", "cases">>,
       <<"Total Fatalities: {deaths}", "deaths">>,
       <<"Total Recoveries: {recovered}", "recovered">>,
       <<"Currently Infected: {active}", "active">>,
       <<"New Infections Today: {todayCases}", "todayCases">>,
       <<"New Fatalities Today: {todayDeaths}", "todayDeaths">>,
       <<"Last Refreshed: {updated}", "updated">> >>

ExpectedNation ==
    << <<"--- COVID-19 Stats for {country} ---", "country">>,
       <<"Infections: {cases}", "cases">>,
       <<"Deaths: {deaths}", "deaths">>,
       <<"Recovered: {recovered}", "recovered">>,
       <<"Active: {active}", "active">>,
       <<"Today's Infections: {todayCases}", "todayCases">>,
       <<"Today's Deaths: {todayDeaths}", "todayDeaths">>,
       <<"Total Tests Conducted: {tests}", "tests">>,
       <<"Updated On: {updated}", "updated">> >>

\* the index of the first line of e whose field the key set lacks
FirstAbsentLine(e, keys) ==
    CHOOSE k \in 1..Len(e) :
        /\ e[k][2] # ""
        /\ e[k][2] \notin keys
        /\ \A j \in 1..(k - 1) : e[j][2] = "" \/ e[j][2] \in keys

\* C10: when a field read by overall or nation-stats is the first absent one,
\* the lines before its line, the header included, are written when the lookup
\* fault occurs and no later line is; nothing at all is written only when the
\* absent field is read by the first printed line.
C10_LinesBeforeFaultWritten ==
    (pc = "fault" /\ fault = "KeyError" /\ cmd \in {"overall", "nation_stats"}) =>
        LET e == IF cmd = "overall" THEN ExpectedOverall ELSE ExpectedNation
            k == FirstAbsentLine(e, data.keys)
        IN  /\ out = [i \in 1..(k - 1) |-> e[i][1]]
            /\ out = <<>> => (cmd = "nation_stats" /\ "country" \notin data.keys)
            /\ cmd = "overall" => out[1] = "--- Global COVID-19 Overview ---"
            /\ ~ENABLED Next

C10_Witness ==
    /\ pc = "fault"
    /\ fault = "KeyError"
    /\ cmd = "nation_stats"
    /\ data.keys = SummaryFields \ {"deaths", "tests"}
    /\ out = <<"--- COVID-19 Stats for {country} ---", "Infections: {cases}">>

====
